---- MODULE Spec2Model ----
(***************************************************************************)
(* Model of src/game.py: the GachaGame session object (player_data held in *)
(* memory, the JSON save file), the handlers gacha_spin, buy_gacha_pack,   *)
(* get_player_status and reset_game as main() calls them, and the wall     *)
(* clock.  Time is counted in minutes.                                     *)
(***************************************************************************)
EXTENDS Integers, Sequences, FiniteSets, TLC

VARIABLES
    now,          \* the wall clock, datetime.now(), in minutes
    file,         \* the save file: whether it exists and the fields written to it
    pc,           \* per session (process): "off", "menu" or "aborted"
    player_data,  \* per constructed session: self.player_data
    last,         \* what the last step did: session, operation, returned outcome
    grid,         \* the 3x3 grid last handed to the win evaluation
    tally         \* spins that went through, counted since the last refill of
                  \*   the attempts (window) and since the player was created
                  \*   or reset_game ran (game)

vars == <<now, file, pc, player_data, last, grid, tally>>

----------------------------------------------------------------------------
(* Program constants *)

MaxAttempts == 10
CooldownMinutes == 15
Reward == 10000
TokensPerPack == 5
NumSymbols == 6

(* Bounds of the model *)

TickMinutes == 5        \* granularity of the clock
MaxTime == 30           \* the clock stops advancing here
MaxWins == 1            \* winning grids are drawn only below this many wins
MaxLosses == 10         \* losing grids are drawn only below this many losses
MaxTokens == 10         \* packs are bought only up to this many tokens
MaxQuantity == 2        \* largest quantity typed at the prompt
AlphabetSize == 2       \* symbols used when every grid is enumerated
SmallMaxTime == 15      \* the caps of the specification with crashes
SmallMaxWins == 1
SmallMaxLosses == 2
SmallMaxTokens == 5
SharedMaxTime == 5      \* the caps of the specification with two sessions
SharedMaxSpins == 1
SharedMaxTokens == 5

Sessions == {1, 2}

----------------------------------------------------------------------------
(* datetime.isoformat / datetime.fromisoformat: the timestamp is stored as *)
(* text, hours and minutes apart, and parsed back on every read.           *)

IsoFormat(t) == [h |-> t \div 60, m |-> t % 60]

FromIsoFormat(s) == s.h * 60 + s.m

----------------------------------------------------------------------------
(* The save file.  json.dump writes the six fields in dictionary order;    *)
(* a file holds the fields written so far.                                 *)

Keys == <<"balance", "tokens", "attempts_left", "last_reset_time",
          "total_wins", "total_losses">>

NoFile == [exists |-> FALSE, content |-> <<>>]

JsonDump(d) == [i \in 1..Len(Keys) |-> <<Keys[i], d[Keys[i]]>>]

JsonComplete(f) == Len(f.content) = Len(Keys)

JsonLoad(f) == [k \in {Keys[i] : i \in 1..Len(Keys)} |->
                  f.content[CHOOSE i \in 1..Len(Keys) : Keys[i] = k][2]]

DefaultData(t) ==
    [balance |-> 0, tokens |-> 0, attempts_left |-> MaxAttempts,
     last_reset_time |-> IsoFormat(t), total_wins |-> 0, total_losses |-> 0]

\* Variant: a file json.load cannot read is answered with the defaults.
LoadData_DefaultOnError(f, t) ==
    IF f.exists /\ JsonComplete(f)
    THEN [ok |-> TRUE, data |-> JsonLoad(f)]
    ELSE [ok |-> TRUE, data |-> DefaultData(t)]

\* load_data: the record of the file when it exists, the defaults
\* otherwise; json.load raises on a file that is not a whole document.
LoadData(f, t) ==
    IF f.exists
    THEN IF JsonComplete(f)
         THEN [ok |-> TRUE, data |-> JsonLoad(f)]
         ELSE [ok |-> FALSE, data |-> DefaultData(0)]
    ELSE [ok |-> TRUE, data |-> DefaultData(t)]

\* save_data interrupted after k fields: open(..., 'w') has truncated the
\* file, and k of the fields have reached it.
WrittenPrefix(d, k) == [exists |-> TRUE, content |-> SubSeq(JsonDump(d), 1, k)]

SaveData(d) == WrittenPrefix(d, Len(Keys))

----------------------------------------------------------------------------
(* The cooldown ledger.  Every handler result carries the player_data it   *)
(* leaves in memory and `writes`, the records it handed to save_data, in   *)
(* order.                                                                  *)

\* Variant: the window counts as elapsed only strictly after the boundary.
CheckResetCooldown_StrictlyAfter(d, t) ==
    LET last_reset == FromIsoFormat(d.last_reset_time)
    IN  IF t > last_reset + CooldownMinutes
        THEN LET d1 == [d EXCEPT !.attempts_left = MaxAttempts,
                                 !.last_reset_time = IsoFormat(t)]
             IN  [data |-> d1, writes |-> <<d1>>, ret |-> TRUE]
        ELSE [data |-> d, writes |-> <<>>, ret |-> FALSE]

\* Variant: the reset refills the attempts and leaves last_reset_time.
CheckResetCooldown_KeepsTime(d, t) ==
    LET last_reset == FromIsoFormat(d.last_reset_time)
    IN  IF t >= last_reset + CooldownMinutes
        THEN LET d1 == [d EXCEPT !.attempts_left = MaxAttempts]
             IN  [data |-> d1, writes |-> <<d1>>, ret |-> TRUE]
        ELSE [data |-> d, writes |-> <<>>, ret |-> FALSE]

\* check_reset_cooldown, with t the value datetime.now() returned to it.
CheckResetCooldown(d, t) ==
    LET last_reset == FromIsoFormat(d.last_reset_time)
    IN  IF t >= last_reset + CooldownMinutes
        THEN LET d1 == [d EXCEPT !.attempts_left = MaxAttempts,
                                 !.last_reset_time = IsoFormat(t)]
             IN  [data |-> d1, writes |-> <<d1>>, ret |-> TRUE]
        ELSE [data |-> d, writes |-> <<>>, ret |-> FALSE]

\* Variant: the difference is returned as it is, past the boundary too.
GetTimeUntilReset_Unclamped(d, t) ==
    LET last_reset == FromIsoFormat(d.last_reset_time)
        next_reset == last_reset + CooldownMinutes
    IN  next_reset - t

\* get_time_until_reset (in minutes here, in seconds in the source).
GetTimeUntilReset(d, t) ==
    LET last_reset == FromIsoFormat(d.last_reset_time)
        next_reset == last_reset + CooldownMinutes
    IN  IF t >= next_reset THEN 0 ELSE next_reset - t

----------------------------------------------------------------------------
(* The spin engine.  A grid g is three rows of three symbols, g[r][c] with *)
(* r, c in 1..3 for row1..row3 and list indices 0..2.                      *)

Symbols == 1..NumSymbols

\* Python's chained comparison a == b == c.
Same3(a, b, c) == a = b /\ b = c

\* Variant: the column check reads the left column.
SpinGacha_LeftColumn(g) ==
    LET w0 == FALSE
        w1 == IF Same3(g[1][1], g[2][1], g[3][1]) THEN TRUE ELSE w0
        w2 == IF Same3(g[1][1], g[1][2], g[1][3]) THEN TRUE ELSE w1
        w3 == IF Same3(g[2][1], g[2][2], g[2][3]) THEN TRUE ELSE w2
        w4 == IF Same3(g[3][1], g[3][2], g[3][3]) THEN TRUE ELSE w3
    IN  w4

\* The win evaluation of spin_gacha, one `if` after the other.
SpinGacha(g) ==
    LET w0 == FALSE
        w1 == IF Same3(g[1][2], g[2][2], g[3][2]) THEN TRUE ELSE w0
        w2 == IF Same3(g[1][1], g[1][2], g[1][3]) THEN TRUE ELSE w1
        w3 == IF Same3(g[2][1], g[2][2], g[2][3]) THEN TRUE ELSE w2
        w4 == IF Same3(g[3][1], g[3][2], g[3][3]) THEN TRUE ELSE w3
    IN  w4

----------------------------------------------------------------------------
(* The handlers.  t1 and t2 are the values of datetime.now() at the first  *)
(* and at the second read of the clock inside the handler.                 *)

\* The part of gacha_spin after the attempts check ("Perform spin").
\* Variants of gacha_spin below share its shape.
SpinOutcome(c, d2, is_win, t2) ==
    LET timer == d2.attempts_left = 0
    IN  [data |-> d2, writes |-> Append(c.writes, d2), reset |-> c.ret,
         outcome |-> IF is_win THEN "win" ELSE "loss", has_rows |-> TRUE,
         time_left |-> IF timer THEN GetTimeUntilReset(d2, t2) ELSE 0,
         next_reset |-> IF timer THEN "timer" ELSE "absent"]

ExhaustedOutcome(c, writes, t2) ==
    [data |-> c.data, writes |-> writes, reset |-> c.ret,
     outcome |-> "exhausted", has_rows |-> FALSE,
     time_left |-> GetTimeUntilReset(c.data, t2), next_reset |-> "absent"]

\* Variant: the attempts check lets a spin through at zero attempts.
GachaSpin_NoFloor(d, t1, t2, g) ==
    LET c == CheckResetCooldown(d, t1)
    IN  IF c.data.attempts_left < 0
        THEN ExhaustedOutcome(c, c.writes, t2)
        ELSE LET is_win == SpinGacha(g)
                 d1 == [c.data EXCEPT !.attempts_left = @ - 1]
                 d2 == IF is_win
                       THEN [d1 EXCEPT !.balance = @ + Reward, !.total_wins = @ + 1]
                       ELSE [d1 EXCEPT !.total_losses = @ + 1]
             IN  SpinOutcome(c, d2, is_win, t2)

\* Variant: a win pays the reward and is not counted.
GachaSpin_WinNotCounted(d, t1, t2, g) ==
    LET c == CheckResetCooldown(d, t1)
    IN  IF c.data.attempts_left <= 0
        THEN ExhaustedOutcome(c, c.writes, t2)
        ELSE LET is_win == SpinGacha(g)
                 d1 == [c.data EXCEPT !.attempts_left = @ - 1]
                 d2 == IF is_win
                       THEN [d1 EXCEPT !.balance = @ + Reward]
                       ELSE [d1 EXCEPT !.total_losses = @ + 1]
             IN  SpinOutcome(c, d2, is_win, t2)

\* Variant: a loss pays the reward too.
GachaSpin_AlwaysPays(d, t1, t2, g) ==
    LET c == CheckResetCooldown(d, t1)
    IN  IF c.data.attempts_left <= 0
        THEN ExhaustedOutcome(c, c.writes, t2)
        ELSE LET is_win == SpinGacha(g)
                 d1 == [c.data EXCEPT !.attempts_left = @ - 1]
                 d2 == IF is_win
                       THEN [d1 EXCEPT !.balance = @ + Reward, !.total_wins = @ + 1]
                       ELSE [d1 EXCEPT !.balance = @ + Reward, !.total_losses = @ + 1]
             IN  SpinOutcome(c, d2, is_win, t2)

\* Variant: a winning spin does not use up an attempt.
GachaSpin_FreeOnWin(d, t1, t2, g) ==
    LET c == CheckResetCooldown(d, t1)
    IN  IF c.data.attempts_left <= 0
        THEN ExhaustedOutcome(c, c.writes, t2)
        ELSE LET is_win == SpinGacha(g)
                 d1 == c.data
                 d2 == IF is_win
                       THEN [d1 EXCEPT !.balance = @ + Reward, !.total_wins = @ + 1]
                       ELSE [d1 EXCEPT !.attempts_left = @ - 1,
                                       !.total_losses = @ + 1]
             IN  SpinOutcome(c, d2, is_win, t2)

\* Variant: a loss is counted as a win as well.
GachaSpin_LossCountsTwice(d, t1, t2, g) ==
    LET c == CheckResetCooldown(d, t1)
    IN  IF c.data.attempts_left <= 0
        THEN ExhaustedOutcome(c, c.writes, t2)
        ELSE LET is_win == SpinGacha(g)
                 d1 == [c.data EXCEPT !.attempts_left = @ - 1]
                 d2 == IF is_win
                       THEN [d1 EXCEPT !.balance = @ + Reward, !.total_wins = @ + 1]
                       ELSE [d1 EXCEPT !.total_wins = @ + 1, !.total_losses = @ + 1]
             IN  SpinOutcome(c, d2, is_win, t2)

\* Variant: the exhausted path saves before it returns.
GachaSpin_SavesWhenExhausted(d, t1, t2, g) ==
    LET c == CheckResetCooldown(d, t1)
    IN  IF c.data.attempts_left <= 0
        THEN ExhaustedOutcome(c, Append(c.writes, c.data), t2)
        ELSE LET is_win == SpinGacha(g)
                 d1 == [c.data EXCEPT !.attempts_left = @ - 1]
                 d2 == IF is_win
                       THEN [d1 EXCEPT !.balance = @ + Reward, !.total_wins = @ + 1]
                       ELSE [d1 EXCEPT !.total_losses = @ + 1]
             IN  SpinOutcome(c, d2, is_win, t2)

\* gacha_spin
GachaSpin(d, t1, t2, g) ==
    LET c == CheckResetCooldown(d, t1)
    IN  IF c.data.attempts_left <= 0
        THEN ExhaustedOutcome(c, c.writes, t2)
        ELSE LET is_win == SpinGacha(g)
                 d1 == [c.data EXCEPT !.attempts_left = @ - 1]
                 d2 == IF is_win
                       THEN [d1 EXCEPT !.balance = @ + Reward, !.total_wins = @ + 1]
                       ELSE [d1 EXCEPT !.total_losses = @ + 1]
             IN  SpinOutcome(c, d2, is_win, t2)

\* Variant: the purchase is paid for out of the balance.
BuyGachaPack_Charged(d, quantity) ==
    LET tokens_gained == TokensPerPack * quantity
        d1 == [d EXCEPT !.tokens = @ + tokens_gained, !.balance = @ - quantity]
    IN  [data |-> d1, writes |-> <<d1>>, reset |-> FALSE,
         outcome |-> "bought", has_rows |-> FALSE,
         time_left |-> 0, next_reset |-> "absent"]

\* buy_gacha_pack
BuyGachaPack(d, quantity) ==
    LET tokens_gained == TokensPerPack * quantity
        d1 == [d EXCEPT !.tokens = @ + tokens_gained]
    IN  [data |-> d1, writes |-> <<d1>>, reset |-> FALSE,
         outcome |-> "bought", has_rows |-> FALSE,
         time_left |-> 0, next_reset |-> "absent"]

\* Variant: the marker is decided on the attempts read before the check.
GetPlayerStatus_StaleMarker(d, t1, t2) ==
    LET c == CheckResetCooldown(d, t1)
    IN  [data |-> c.data, writes |-> c.writes, reset |-> c.ret,
         outcome |-> "status", has_rows |-> FALSE,
         time_left |-> GetTimeUntilReset(c.data, t2),
         next_reset |-> IF d.attempts_left < MaxAttempts THEN "timer" ELSE "Penuh"]

\* get_player_status
GetPlayerStatus(d, t1, t2) ==
    LET c == CheckResetCooldown(d, t1)
    IN  [data |-> c.data, writes |-> c.writes, reset |-> c.ret,
         outcome |-> "status", has_rows |-> FALSE,
         time_left |-> GetTimeUntilReset(c.data, t2),
         next_reset |-> IF c.data.attempts_left < MaxAttempts THEN "timer" ELSE "Penuh"]

\* Variant: the reset leaves the start of the window at the epoch.
ResetGame_EpochTime(t) ==
    LET d1 == [balance |-> 0, tokens |-> 0, attempts_left |-> 10,
               last_reset_time |-> IsoFormat(0), total_wins |-> 0,
               total_losses |-> 0]
    IN  [data |-> d1, writes |-> <<d1>>, reset |-> FALSE,
         outcome |-> "reset", has_rows |-> FALSE,
         time_left |-> 0, next_reset |-> "absent"]

\* reset_game
ResetGame(t) ==
    LET d1 == [balance |-> 0, tokens |-> 0, attempts_left |-> 10,
               last_reset_time |-> IsoFormat(t), total_wins |-> 0,
               total_losses |-> 0]
    IN  [data |-> d1, writes |-> <<d1>>, reset |-> FALSE,
         outcome |-> "reset", has_rows |-> FALSE,
         time_left |-> 0, next_reset |-> "absent"]

\* A branch of main() that calls no handler: nothing read, nothing written.
Untouched(d, outcome) ==
    [data |-> d, writes |-> <<>>, reset |-> FALSE,
     outcome |-> outcome, has_rows |-> FALSE,
     time_left |-> 0, next_reset |-> "absent"]

----------------------------------------------------------------------------
(* The processes.  A session is one run of main(): GachaGame() constructs  *)
(* the object, then the menu loop calls one handler per choice.            *)

NoCrash == <<0, 0>>

\* The crash points of a handler that hands `writes` to save_data: the
\* n-th save_data call is interrupted after k of the fields.
CrashPoints(writes) ==
    {NoCrash} \cup ((1..Len(writes)) \X (0..(Len(Keys) - 1)))

\* Nothing typed at a prompt (also: a text int() refuses).
NoTyped == [numeric |-> FALSE, value |-> 0]

\* The record of a step: who did what, what was typed, what it returned and
\* how many times save_data was called.
Did(s, op, typed, out, saves) ==
    [s |-> s, op |-> op, typed |-> typed, outcome |-> out.outcome,
     saves |-> saves, reset |-> out.reset, time_left |-> out.time_left,
     next_reset |-> out.next_reset]

\* The tally after a handler: a refill of the attempts (the cooldown reset,
\* reset_game) starts the window again, reset_game starts the game again,
\* and a spin that went through counts in both.
Tallied(out) ==
    LET window == IF out.reset \/ out.outcome = "reset" THEN 0 ELSE tally.window
        game == IF out.outcome = "reset" THEN 0 ELSE tally.game
        spun == IF out.has_rows THEN 1 ELSE 0
    IN  [window |-> window + spun, game |-> game + spun]

\* What a handler call leaves behind.  Without a crash every save_data
\* call completes, the last one deciding the file, and main() goes back to
\* the menu unless it raises on the result (`raises`).  With the crash
\* point cr the process dies inside the cr[1]-th save_data call.
Complete(s, op, typed, out, cr, raises) ==
    IF cr = NoCrash
    THEN /\ file' = IF out.writes = <<>> THEN file
                    ELSE SaveData(out.writes[Len(out.writes)])
         /\ player_data' = [player_data EXCEPT ![s] = out.data]
         /\ pc' = [pc EXCEPT ![s] = IF raises THEN "aborted" ELSE "menu"]
         /\ last' = Did(s, op, typed, out, Len(out.writes))
         /\ tally' = Tallied(out)
    ELSE /\ cr \in CrashPoints(out.writes)
         /\ file' = WrittenPrefix(out.writes[cr[1]], cr[2])
         /\ player_data' = [player_data EXCEPT ![s] = out.writes[cr[1]]]
         /\ pc' = [pc EXCEPT ![s] = "aborted"]
         /\ last' = Did(s, op, typed, [out EXCEPT !.outcome = "crashed"], cr[1])
         /\ tally' = IF cr[1] = Len(out.writes) THEN Tallied(out)
                     ELSE Tallied([out EXCEPT !.has_rows = FALSE])

\* main(): game = GachaGame(), that is load_data; an exception of
\* json.load ends the process before the menu is shown.
Start(s) ==
    /\ pc[s] # "menu"
    /\ LET l == LoadData(file, now)
       IN  IF l.ok
           THEN /\ player_data' = (s :> l.data) @@ player_data
                /\ pc' = [pc EXCEPT ![s] = "menu"]
                /\ last' = Did(s, "start", NoTyped,
                               Untouched(l.data, IF file.exists THEN "loaded"
                                                 ELSE "created"), 0)
           ELSE /\ pc' = [pc EXCEPT ![s] = "aborted"]
                /\ last' = Did(s, "start", NoTyped,
                               Untouched(l.data, "load_error"), 0)
                /\ UNCHANGED player_data
    /\ tally' = IF file.exists THEN tally ELSE [window |-> 0, game |-> 0]
    /\ UNCHANGED <<now, file, grid>>

\* Menu choice 1.  The exhausted result carries no 'row1', which main()
\* reads first: the KeyError ends the process.
Spin(s, g, dt, cr) ==
    /\ pc[s] = "menu"
    /\ LET out == GachaSpin(player_data[s], now, now + dt, g)
       IN  /\ Complete(s, "spin", NoTyped, out, cr, ~out.has_rows)
           /\ grid' = IF out.has_rows THEN g ELSE grid
    /\ now' = now + dt

\* Variant: the check lets a quantity of zero through.
QuantityRejected_BelowZero(qty) == qty < 0

\* The check of the typed quantity in main().
QuantityRejected(qty) == qty < 1

\* Menu choice 2.  typed.numeric is whether int() accepts the text.
Buy(s, typed, cr) ==
    /\ pc[s] = "menu"
    /\ LET out == IF ~typed.numeric THEN Untouched(player_data[s], "invalid")
                  ELSE IF QuantityRejected(typed.value)
                       THEN Untouched(player_data[s], "rejected")
                       ELSE BuyGachaPack(player_data[s], typed.value)
       IN  Complete(s, "buy", typed, out, cr, FALSE)
    /\ UNCHANGED <<now, grid>>

\* Menu choice 3.
Status(s, dt, cr) ==
    /\ pc[s] = "menu"
    /\ LET out == GetPlayerStatus(player_data[s], now, now + dt)
       IN  Complete(s, "status", NoTyped, out, cr, FALSE)
    /\ now' = now + dt
    /\ UNCHANGED grid

\* Menu choice 4, with the answer to the confirmation prompt.
Reset(s, confirm, cr) ==
    /\ pc[s] = "menu"
    /\ LET out == IF confirm THEN ResetGame(now)
                  ELSE Untouched(player_data[s], "cancelled")
       IN  Complete(s, "reset", NoTyped, out, cr, FALSE)
    /\ UNCHANGED <<now, grid>>

\* Menu choice 5.
Quit(s) ==
    /\ pc[s] = "menu"
    /\ pc' = [pc EXCEPT ![s] = "off"]
    /\ last' = Did(s, "quit", NoTyped, Untouched(player_data[s], "quit"), 0)
    /\ UNCHANGED <<now, file, player_data, grid, tally>>

\* The wall clock advances while the program waits at a prompt or is off.
Tick ==
    /\ now' = now + TickMinutes
    /\ last' = Did(0, "tick", NoTyped, Untouched(<<>>, "tick"), 0)
    /\ UNCHANGED <<file, pc, player_data, grid, tally>>

----------------------------------------------------------------------------
(* Inputs *)

\* Grids a spin draws in the session specifications: a diagonal and a left
\* column (no win), the middle column, a row.
SpinGrids ==
    { <<<<1, 2, 2>>, <<2, 1, 2>>, <<2, 2, 1>>>>,
      <<<<1, 2, 2>>, <<1, 1, 2>>, <<1, 2, 1>>>>,
      <<<<1, 2, 1>>, <<2, 2, 1>>, <<1, 2, 2>>>>,
      <<<<1, 2, 1>>, <<2, 1, 2>>, <<2, 2, 2>>>> }

\* Every grid over the first AlphabetSize symbols.
AllGrids == [1..3 -> [1..3 -> 1..AlphabetSize]]

\* What is typed at the quantity prompt.
Typed ==
    {NoTyped}
        \cup {[numeric |-> TRUE, value |-> q] : q \in (-1)..MaxQuantity}

\* Time that passes between two reads of the clock inside one handler.
Delays == {0, TickMinutes, 2 * TickMinutes}

AllCrashPoints == CrashPoints(<<1, 2>>)

NoneYet == Did(0, "none", NoTyped, Untouched(<<>>, "none"), 0)

\* The counters of session s and the clock stay within the given caps.
Within(s, maxWins, maxLosses, maxTokens, maxTime) ==
    /\ now' <= maxTime
    /\ player_data'[s].total_wins <= maxWins
    /\ player_data'[s].total_losses <= maxLosses
    /\ player_data'[s].tokens <= maxTokens

----------------------------------------------------------------------------
(* Spec: one session, from a fresh player, every save completing.         *)

Init ==
    /\ now = 0
    /\ file = NoFile
    /\ pc = [s \in Sessions |-> IF s = 1 THEN "menu" ELSE "off"]
    /\ player_data = (1 :> DefaultData(0))
    /\ last = NoneYet
    /\ grid = <<>>
    /\ tally = [window |-> 0, game |-> 0]

Capped(s) == Within(s, MaxWins, MaxLosses, MaxTokens, MaxTime)

Next ==
    \/ Start(1)
    \/ \E g \in SpinGrids, dt \in Delays : Spin(1, g, dt, NoCrash) /\ Capped(1)
    \/ \E typed \in Typed : Buy(1, typed, NoCrash) /\ Capped(1)
    \/ \E dt \in Delays : Status(1, dt, NoCrash) /\ Capped(1)
    \/ \E confirm \in BOOLEAN : Reset(1, confirm, NoCrash)
    \/ Quit(1)
    \/ Tick /\ now' <= MaxTime

Spec == Init /\ [][Next]_vars

----------------------------------------------------------------------------
(* SpecShared: two sessions (two runs of the program) on one save file,    *)
(* their actions never overlapping: each step is one whole action.         *)

SharedCapped(s) ==
    /\ Within(s, SharedMaxSpins, SharedMaxSpins, SharedMaxTokens, SharedMaxTime)
    /\ player_data'[s].total_wins + player_data'[s].total_losses <= SharedMaxSpins

NextShared ==
    \/ \E s \in Sessions : Start(s)
    \/ \E s \in Sessions, g \in SpinGrids, dt \in Delays :
           Spin(s, g, dt, NoCrash) /\ SharedCapped(s)
    \/ \E s \in Sessions, typed \in Typed :
           Buy(s, typed, NoCrash) /\ SharedCapped(s)
    \/ \E s \in Sessions, dt \in Delays :
           Status(s, dt, NoCrash) /\ SharedCapped(s)
    \/ \E s \in Sessions, confirm \in BOOLEAN : Reset(s, confirm, NoCrash)
    \/ \E s \in Sessions : Quit(s)
    \/ Tick /\ now' <= SharedMaxTime

SpecShared == Init /\ [][NextShared]_vars

----------------------------------------------------------------------------
(* SpecCrash: one session; the process may die inside any save_data call,  *)
(* and the program is started again.                                       *)

SmallCapped(s) ==
    Within(s, SmallMaxWins, SmallMaxLosses, SmallMaxTokens, SmallMaxTime)

NextCrash ==
    \/ Start(1)
    \/ \E g \in SpinGrids, dt \in Delays, cr \in AllCrashPoints :
           Spin(1, g, dt, cr) /\ SmallCapped(1)
    \/ \E typed \in Typed, cr \in AllCrashPoints :
           Buy(1, typed, cr) /\ SmallCapped(1)
    \/ \E dt \in Delays, cr \in AllCrashPoints :
           Status(1, dt, cr) /\ SmallCapped(1)
    \/ \E confirm \in BOOLEAN, cr \in AllCrashPoints : Reset(1, confirm, cr)
    \/ Quit(1)
    \/ Tick /\ now' <= SmallMaxTime

SpecCrash == Init /\ [][NextCrash]_vars

----------------------------------------------------------------------------
(* SpecGrid: the win evaluation of spin_gacha applied to every grid over   *)
(* the first AlphabetSize symbols.                                         *)

InitGrid ==
    /\ now = 0
    /\ file = NoFile
    /\ pc = [s \in Sessions |-> "off"]
    /\ player_data = <<>>
    /\ last = NoneYet
    /\ grid \in AllGrids
    /\ tally = [window |-> 0, game |-> 0]

EvaluateGrid ==
    /\ last.op = "none"
    /\ last' = [NoneYet EXCEPT !.op = "spin_gacha",
                               !.outcome = IF SpinGacha(grid) THEN "win" ELSE "loss"]
    /\ UNCHANGED <<now, file, pc, player_data, grid, tally>>

NextGrid == EvaluateGrid

SpecGrid == InitGrid /\ [][NextGrid]_vars

----------------------------------------------------------------------------
(* Properties.  A step is told apart by the record it leaves in `last`.   *)

\* The end of the cooldown window of the record d.
Boundary(d) == FromIsoFormat(d.last_reset_time) + CooldownMinutes

\* This step is session s taking menu choice op.
StepBy(s, op) == pc[s] = "menu" /\ last'.s = s /\ last'.op = op

\* C1: attempts_left of every constructed session is an integer in 0..10
\* in every reachable state, and a spin taken with attempts_left = 0 before
\* the cooldown boundary reports the exhausted outcome and leaves every
\* field of player_data as it was.
C1_AttemptsInRange ==
    /\ [](\A s \in DOMAIN player_data :
              player_data[s].attempts_left \in 0..MaxAttempts)
    /\ [][\A s \in Sessions :
              (/\ StepBy(s, "spin")
               /\ player_data[s].attempts_left = 0
               /\ now < Boundary(player_data[s]))
              => (/\ last'.outcome = "exhausted"
                  /\ player_data'[s] = player_data[s])]_vars

C1_Witness ==
    /\ last.op = "spin"
    /\ last.outcome = "exhausted"
    /\ player_data[last.s].attempts_left = 0

\* C2: a spin taken at or after last_reset_time + 15 minutes is never
\* exhausted: the reset fires with last_reset_time set to the time of the
\* check, one attempt is consumed, and attempts_left is 9 afterwards.
C2_SpinAfterCooldown ==
    [][\A s \in Sessions :
          (StepBy(s, "spin") /\ now >= Boundary(player_data[s]))
          => (/\ last'.outcome \in {"win", "loss"}
              /\ last'.reset
              /\ player_data'[s].attempts_left = MaxAttempts - 1
              /\ player_data'[s].last_reset_time = IsoFormat(now))]_vars

\* The eleventh spin of a player, at exactly 15 minutes: no reset can have
\* fired before, so the ten earlier spins had used up every attempt.
C2_Witness ==
    /\ last.op = "spin"
    /\ last.reset
    /\ last.outcome = "loss"
    /\ player_data[last.s].last_reset_time = IsoFormat(CooldownMinutes)
    /\ player_data[last.s].total_wins + player_data[last.s].total_losses
           = MaxAttempts + 1
    /\ player_data[last.s].attempts_left = MaxAttempts - 1

\* C3: a spin taken with attempts_left = 0 before the cooldown boundary
\* returns the exhausted outcome, leaves player_data unchanged and calls
\* save_data not once: the file is as it was.
C3_ExhaustedSpinNoSave ==
    [][\A s \in Sessions :
          (/\ StepBy(s, "spin")
           /\ player_data[s].attempts_left = 0
           /\ now < Boundary(player_data[s]))
          => (/\ last'.outcome = "exhausted"
              /\ player_data'[s] = player_data[s]
              /\ last'.saves = 0
              /\ file' = file)]_vars

C3_Witness ==
    /\ last.op = "spin"
    /\ last.outcome = "exhausted"
    /\ ~last.reset
    /\ last.saves = 0
    /\ file.exists
    /\ JsonLoad(file) = player_data[last.s]

\* C4: check_reset_cooldown, as the status action runs it: before the
\* boundary it changes nothing, returns False and saves nothing, at every
\* repetition; at or after the boundary it sets attempts_left to 10 and
\* last_reset_time to the time of the check, saves once and returns True,
\* and called again at that same instant it returns False and changes
\* nothing.
C4_CooldownResetOnce ==
    [][\A s \in Sessions :
          StepBy(s, "status")
          => LET d == player_data[s]
                 d1 == player_data'[s]
                 again == CheckResetCooldown(d1, now)
             IN  IF now < Boundary(d)
                 THEN /\ d1 = d
                      /\ ~last'.reset
                      /\ last'.saves = 0
                      /\ file' = file
                 ELSE /\ d1 = [d EXCEPT !.attempts_left = 10,
                                        !.last_reset_time = IsoFormat(now)]
                      /\ last'.reset
                      /\ last'.saves = 1
                      /\ file'.exists /\ JsonComplete(file')
                      /\ JsonLoad(file') = d1
                      /\ ~again.ret
                      /\ again.data = d1
                      /\ again.writes = <<>>]_vars

\* A status read that fired the reset after attempts had been spent.
C4_Witness ==
    /\ last.op = "status"
    /\ last.reset
    /\ last.saves = 1
    /\ player_data[last.s].attempts_left = MaxAttempts
    /\ player_data[last.s].total_wins + player_data[last.s].total_losses > 0

\* C5: a spin that is not exhausted takes exactly one attempt off the
\* value the cooldown check left (10 when the window had elapsed, the
\* previous value otherwise) and applies exactly one branch: a win adds
\* 10000 to balance and 1 to total_wins and leaves total_losses; a loss
\* adds 1 to total_losses and leaves balance and total_wins; the
\* resulting record is what the file then holds.
C5_SpinAppliesOneBranch ==
    [][\A s \in Sessions :
          (StepBy(s, "spin") /\ last'.outcome # "exhausted")
          => LET d == player_data[s]
                 d1 == player_data'[s]
                 checked == IF now >= Boundary(d) THEN 10 ELSE d.attempts_left
             IN  /\ d1.attempts_left = checked - 1
                 /\ d1.tokens = d.tokens
                 /\ \/ /\ last'.outcome = "win"
                       /\ d1.balance = d.balance + 10000
                       /\ d1.total_wins = d.total_wins + 1
                       /\ d1.total_losses = d.total_losses
                    \/ /\ last'.outcome = "loss"
                       /\ d1.balance = d.balance
                       /\ d1.total_wins = d.total_wins
                       /\ d1.total_losses = d.total_losses + 1
                 /\ last'.saves >= 1
                 /\ file'.exists /\ JsonComplete(file')
                 /\ JsonLoad(file') = d1]_vars

\* A fresh player's first spin wins.
C5_Witness ==
    /\ last.op = "spin"
    /\ last.outcome = "win"
    /\ player_data[last.s].balance = 10000
    /\ player_data[last.s].total_wins = 1
    /\ player_data[last.s].total_losses = 0
    /\ player_data[last.s].attempts_left = 9

\* The cells of the four alignments that win: the middle column and the
\* three rows, as <<row, column>> pairs.
WinningLines ==
    { {<<1, 2>>, <<2, 2>>, <<3, 2>>} }
        \cup { {<<r, 1>>, <<r, 2>>, <<r, 3>>} : r \in 1..3 }

\* The alignments that do not win by themselves: the outer columns and
\* the diagonals.
OtherLines ==
    { {<<1, 1>>, <<2, 1>>, <<3, 1>>}, {<<1, 3>>, <<2, 3>>, <<3, 3>>},
      {<<1, 1>>, <<2, 2>>, <<3, 3>>}, {<<1, 3>>, <<2, 2>>, <<3, 1>>} }

\* One symbol on every cell of the line.
Aligned(g, line) == Cardinality({g[c[1]][c[2]] : c \in line}) = 1

\* C6: for every 3x3 grid the evaluation reports a win if and only if the
\* middle column or one of the three rows holds one symbol three times;
\* an outer column or a diagonal alone does not win.
C6_WinIffLine ==
    last.op = "spin_gacha"
    => (last.outcome = "win" <=> \E line \in WinningLines : Aligned(grid, line))

\* Evaluated grids: the middle column aligned and no row, a win.
C6_Witness ==
    /\ last.op = "spin_gacha"
    /\ last.outcome = "win"
    /\ Aligned(grid, {<<1, 2>>, <<2, 2>>, <<3, 2>>})
    /\ \A r \in 1..3 : ~Aligned(grid, {<<r, 1>>, <<r, 2>>, <<r, 3>>})

\* Evaluated grids: an outer column or a diagonal aligned, and a loss.
C6_OtherLineLoses ==
    /\ last.op = "spin_gacha"
    /\ last.outcome = "loss"
    /\ \E line \in OtherLines : Aligned(grid, line)

\* C7: a purchase with a typed quantity below 1 is rejected: player_data
\* is unchanged and save_data is not called, the file is as it was.
C7_PurchaseBelowOneRejected ==
    [][\A s \in Sessions :
          (/\ StepBy(s, "buy")
           /\ last'.typed.numeric
           /\ last'.typed.value < 1)
          => (/\ last'.outcome = "rejected"
              /\ player_data'[s] = player_data[s]
              /\ last'.saves = 0
              /\ file' = file)]_vars

\* A quantity of 0 typed and rejected.
C7_Witness ==
    /\ last.op = "buy"
    /\ last.typed.numeric
    /\ last.typed.value = 0
    /\ last.outcome = "rejected"
    /\ last.saves = 0

\* C8: a purchase of q >= 1 packs adds exactly 5 * q to tokens, leaves
\* every other field and saves the record; a spin or a status read never
\* changes tokens.
C8_PurchaseAddsTokensOnly ==
    [][\A s \in Sessions :
          /\ (/\ StepBy(s, "buy")
              /\ last'.typed.numeric
              /\ last'.typed.value >= 1)
             => (/\ last'.outcome = "bought"
                 /\ player_data'[s] =
                        [player_data[s] EXCEPT !.tokens = @ + 5 * last'.typed.value]
                 /\ last'.saves = 1
                 /\ file'.exists /\ JsonComplete(file')
                 /\ JsonLoad(file') = player_data'[s])
          /\ (StepBy(s, "spin") \/ StepBy(s, "status"))
             => player_data'[s].tokens = player_data[s].tokens]_vars

\* Two packs bought by a player who has won a spin: 10 tokens, the balance
\* still the reward.
C8_Witness ==
    /\ last.op = "buy"
    /\ last.outcome = "bought"
    /\ last.typed.value = 2
    /\ player_data[last.s].tokens = 10
    /\ player_data[last.s].balance = 10000

\* The menu choices that read or change the player's record.
SessionActions == {"spin", "buy", "status", "reset"}

\* C9: every action of a session starts from the record the file holds:
\* with two sessions on one save file taking whole actions in turn, the
\* player_data an action starts from is the persisted record.
C9_ActionStartsFromPersisted ==
    [][\A s \in Sessions :
          (/\ \E op \in SessionActions : StepBy(s, op)
           /\ file.exists)
          => player_data[s] = JsonLoad(file)]_vars

\* C9, the loss it rules out: tokens bought and saved are in the file
\* until a reset_game; no later action writes a smaller count.
C9_NoPurchaseLost ==
    [][(file.exists /\ file'.exists /\ last'.outcome # "reset")
          => JsonLoad(file').tokens >= JsonLoad(file).tokens]_vars

\* C10: whatever happens during save_data, the file a later load_data
\* opens holds a whole record, the previous or the new one.
C10_SaveAtomic == file.exists => JsonComplete(file)

\* C10, seen from the next run: load_data after a crash never fails.
C10_LoadAfterCrashSucceeds == last.op = "start" => last.outcome # "load_error"

\* C11, as stated: balance is never negative and no spin, purchase, status
\* read or reset lowers it; its only change is +10000 on a winning spin.
C11_BalanceNeverDecreases ==
    /\ [](\A s \in DOMAIN player_data : player_data[s].balance >= 0)
    /\ [][\A s \in Sessions :
              (\E op \in SessionActions : StepBy(s, op))
              => \/ player_data'[s].balance = player_data[s].balance
                 \/ /\ last'.outcome = "win"
                    /\ player_data'[s].balance = player_data[s].balance + 10000]_vars

\* C11, amended: balance is never negative; a spin, a purchase and a
\* status read never lower it, its only change there being +10000 on a
\* winning spin; a confirmed reset_game sets it to 0.
C11_BalanceUntilReset ==
    /\ [](\A s \in DOMAIN player_data : player_data[s].balance >= 0)
    /\ [][\A s \in Sessions :
              (\E op \in SessionActions : StepBy(s, op))
              => IF last'.outcome = "reset"
                 THEN player_data'[s].balance = 0
                 ELSE \/ player_data'[s].balance = player_data[s].balance
                      \/ /\ last'.outcome = "win"
                         /\ player_data'[s].balance
                                = player_data[s].balance + 10000]_vars

\* reset_game has run after the last spin that went through, a win: the
\* balance is 0 again.
C11_Witness ==
    /\ last.op = "reset"
    /\ last.outcome = "reset"
    /\ grid # <<>>
    /\ SpinGacha(grid)
    /\ player_data[last.s].balance = 0

\* C12: the time get_time_until_reset returned is never negative: it is 0
\* when the clock it read was at or past last_reset_time + 15 minutes, and
\* the difference to that boundary, positive, before it.  (After a status
\* read or a spin that reported a time, `now` is the clock that call read.)
C12_TimeUntilResetClamped ==
    (\/ last.op = "status"
     \/ last.op = "spin" /\ (last.outcome = "exhausted" \/ last.next_reset = "timer"))
    => LET boundary == Boundary(player_data[last.s])
       IN  /\ last.time_left >= 0
           /\ now >= boundary => last.time_left = 0
           /\ now < boundary => last.time_left = boundary - now
                                /\ last.time_left > 0

\* A status read whose second look at the clock fell past the boundary:
\* zero is reported.
C12_Witness ==
    /\ last.op = "status"
    /\ ~last.reset
    /\ now > Boundary(player_data[last.s])
    /\ last.time_left = 0

\* This step is a run of the program starting for session s.
StartBy(s) == pc[s] # "menu" /\ last'.s = s /\ last'.op = "start"

\* The record of a player created at time t.
FreshRecord(t) ==
    [balance |-> 0, tokens |-> 0, attempts_left |-> 10,
     last_reset_time |-> IsoFormat(t), total_wins |-> 0, total_losses |-> 0]

\* C13: load_data returns the defaults (last_reset_time the current time)
\* exactly when no file exists; a file holding a whole record is returned
\* as that record; a file that exists and holds no whole record makes the
\* load fail, the error ending the run, and no default record takes its
\* place.
C13_LoadDefaultsOnlyWhenAbsent ==
    [][\A s \in Sessions :
          StartBy(s)
          => /\ ~file.exists
                => /\ last'.outcome = "created"
                   /\ pc'[s] = "menu"
                   /\ player_data'[s] = FreshRecord(now)
             /\ (file.exists /\ Len(file.content) = 6)
                => /\ last'.outcome = "loaded"
                   /\ pc'[s] = "menu"
                   /\ \A i \in 1..6 :
                          player_data'[s][file.content[i][1]] = file.content[i][2]
             /\ (file.exists /\ Len(file.content) < 6)
                => /\ last'.outcome = "load_error"
                   /\ pc'[s] = "aborted"
                   /\ player_data' = player_data
             /\ last'.outcome = "created" => ~file.exists]_vars

\* A run started on a file a crash had cut short: the load failed.
C13_Witness ==
    /\ last.op = "start"
    /\ last.outcome = "load_error"
    /\ file.exists
    /\ ~JsonComplete(file)
    /\ pc[last.s] = "aborted"

\* C14: a spin that finds no attempts left is a normal outcome: after it
\* the session is back at the menu.
C14_ExhaustedReturnsToMenu ==
    (last.op = "spin" /\ last.outcome = "exhausted") => pc[last.s] = "menu"

\* C15: a confirmed reset_game leaves exactly the default record, with
\* last_reset_time the current time, whatever the record was, and the file
\* then holds that record.
C15_ResetYieldsDefaults ==
    [][\A s \in Sessions :
          (StepBy(s, "reset") /\ last'.outcome = "reset")
          => /\ player_data'[s] = FreshRecord(now)
             /\ last'.saves = 1
             /\ file'.exists /\ JsonComplete(file')
             /\ JsonLoad(file') = FreshRecord(now)]_vars

\* A reset later than the start, of a player whose last spin was a win.
C15_Witness ==
    /\ last.op = "reset"
    /\ last.outcome = "reset"
    /\ now > 0
    /\ grid # <<>>
    /\ SpinGacha(grid)
    /\ player_data[last.s] = FreshRecord(now)
    /\ JsonLoad(file) = FreshRecord(now)

\* C16: a status read never changes balance, tokens, total_wins or
\* total_losses; it changes attempts_left and last_reset_time, and saves,
\* only when the 15-minute window has elapsed; and its snapshot shows the
\* full marker ("Penuh") in place of the timer exactly when attempts_left,
\* as the snapshot shows it, is 10.
C16_StatusReadOnly ==
    [][\A s \in Sessions :
          StepBy(s, "status")
          => LET d == player_data[s]
                 d1 == player_data'[s]
             IN  /\ d1.balance = d.balance
                 /\ d1.tokens = d.tokens
                 /\ d1.total_wins = d.total_wins
                 /\ d1.total_losses = d.total_losses
                 /\ (d1 # d \/ last'.saves > 0 \/ file' # file)
                    => now >= Boundary(d)
                 /\ last'.next_reset = "Penuh" <=> d1.attempts_left = 10
                 /\ last'.next_reset = "timer" <=> d1.attempts_left # 10]_vars

\* A status read that refilled spent attempts and shows the full marker.
C16_Witness ==
    /\ last.op = "status"
    /\ last.reset
    /\ last.next_reset = "Penuh"
    /\ tally.game > 0
    /\ player_data[last.s].attempts_left = 10

\* A status read that shows the timer.
C16_TimerShown ==
    /\ last.op = "status"
    /\ last.next_reset = "timer"
    /\ player_data[last.s].attempts_left < 10

\* C17: a run of the program started after the previous one ended finds in
\* memory the record the previous run had in memory, every field of it,
\* last_reset_time included, also when that run never saved.
C17_RestartKeepsState ==
    [][\A s \in Sessions :
          (StartBy(s) /\ s \in DOMAIN player_data)
          => (/\ pc'[s] = "menu"
              /\ player_data'[s] = player_data[s])]_vars

\* C17 for a player whose record has been saved: the restart keeps it.
C17_RestartKeepsSavedState ==
    [][\A s \in Sessions :
          (StartBy(s) /\ s \in DOMAIN player_data /\ file.exists)
          => (/\ pc'[s] = "menu"
              /\ player_data'[s] = player_data[s])]_vars

\* C18: between two refills of the attempts (the cooldown reset,
\* reset_game) at most 10 spins go through: in every reachable state the
\* attempts left and the spins gone through since the last refill add up
\* to 10.
C18_AttemptsPlusSpinsIsTen ==
    \A s \in DOMAIN player_data :
        /\ player_data[s].attempts_left + tally.window = 10
        /\ tally.window <= 10

\* The tenth spin of a window has gone through.
C18_Witness ==
    /\ last.op = "spin"
    /\ last.outcome = "loss"
    /\ tally.window = 10
    /\ player_data[last.s].attempts_left = 0

\* C19: in every reachable state balance is 10000 times total_wins, and
\* total_wins + total_losses is the number of spins gone through since the
\* player was created or reset_game last ran.
C19_LedgerMatchesSpins ==
    \A s \in DOMAIN player_data :
        /\ player_data[s].balance = 10000 * player_data[s].total_wins
        /\ player_data[s].total_wins + player_data[s].total_losses = tally.game

\* Eleven spins, across a cooldown reset, one of them a win.
C19_Witness ==
    /\ tally.game = 11
    /\ tally.window = 1
    /\ player_data[1].total_wins = 1
    /\ player_data[1].total_losses = 10
    /\ player_data[1].balance = 10000

\* C20: an exhausted spin reports a strictly positive time to wait, the
\* clock moving on between the cooldown check and the computation of the
\* time included.
C20_ExhaustedWaitPositive ==
    (last.op = "spin" /\ last.outcome = "exhausted") => last.time_left > 0

====
